---- MODULE Spec2Model ----
(***************************************************************************)
(* Finite-capacity shift scheduler (CapacityPlanning.py, and its           *)
(* machine-only twin MachineScheduling.py).                                 *)
(*                                                                         *)
(* Time is counted in half hours since Monday 00:00 of week 0: every shift *)
(* boundary (08:00, 16:30, 01:30) and every project start (on the hour)    *)
(* is a whole number of half hours, and durations are drawn from whole     *)
(* numbers of half hours, so datetime arithmetic is exact integer          *)
(* arithmetic.                                                             *)
(***************************************************************************)
EXTENDS Integers, Sequences, FiniteSets, TLC

\* ---------------------------------------------------------------- bounds
NumProjects == 2
MaxOps == 2
MaxTotalOps == 2
NumContenders == 3
ProbeWeeks == 1
MaxProbeHours == 9

\* ---------------------------------------------------------- time units
Day == 48
HalfHoursPerHour == 2
Sunday == 6

\* value of a failed get_next_shift_start (the ValueError) and of None
NoShift == -1
None == -2

Resources == {"R1", "R2"}

\* SHIFT_TIMES[s] = <<start wall-clock, end wall-clock>> in half hours
SHIFT_TIMES == << <<16, 33>>, <<33, 3>>, <<3, 16>> >>
ShiftIds == DOMAIN SHIFT_TIMES

\* ------------------------------------------------------ calendar engine
weekday(dt) == (dt \div Day) % 7
time_of(dt) == dt % Day
date_of(dt) == dt - (dt % Day)

is_sunday(dt) == weekday(dt) = Sunday

RECURSIVE skip_sundays(_)
skip_sundays(d) == IF is_sunday(d) THEN skip_sundays(d + Day) ELSE d

next_working_day(dt) == skip_sundays(dt + Day)

\* dt.replace(hour=0, minute=0)
replace_midnight(dt) == date_of(dt)

RECURSIVE shift_table_scan(_, _)
shift_table_scan(t, s) ==
    IF s > Len(SHIFT_TIMES) THEN 0
    ELSE LET start == SHIFT_TIMES[s][1]
             end   == SHIFT_TIMES[s][2]
         IN IF start < end
            THEN IF start <= t /\ t < end THEN s ELSE shift_table_scan(t, s + 1)
            ELSE IF t >= start \/ t < end THEN s ELSE shift_table_scan(t, s + 1)

\* 0 stands for None: it is a member of no operational-shift set
get_shift_for_time(t) == shift_table_scan(t, 1)

RECURSIVE sort_by_start(_)
sort_by_start(S) ==
    IF S = {} THEN <<>>
    ELSE LET m == CHOOSE x \in S : \A y \in S : SHIFT_TIMES[x][1] <= SHIFT_TIMES[y][1]
         IN <<m>> \o sort_by_start(S \ {m})

sorted_shifts == sort_by_start(ShiftIds)

RECURSIVE next_shift_scan(_, _, _, _)
next_shift_scan(resource_shifts, current_dt, days_ahead, i) ==
    IF days_ahead > 7 THEN NoShift
    ELSE LET day == date_of(current_dt) + days_ahead * Day
         IN IF is_sunday(day) \/ i > Len(sorted_shifts)
            THEN next_shift_scan(resource_shifts, current_dt, days_ahead + 1, 1)
            ELSE LET shift == sorted_shifts[i]
                     start_time == SHIFT_TIMES[shift][1]
                     end_time == SHIFT_TIMES[shift][2]
                     shift_start ==
                         IF start_time > end_time /\ days_ahead = 0
                            /\ time_of(current_dt) > start_time
                         THEN day + start_time + Day
                         ELSE day + start_time
                 IN IF shift \notin resource_shifts
                    THEN next_shift_scan(resource_shifts, current_dt, days_ahead, i + 1)
                    ELSE IF shift_start > current_dt
                         THEN shift_start
                         ELSE next_shift_scan(resource_shifts, current_dt, days_ahead, i + 1)

\* the search over range(0, 2) instead of range(0, 8): today and tomorrow
get_next_shift_start_two_days(resource_shifts, current_dt) ==
    LET found == next_shift_scan(resource_shifts, current_dt, 0, 1)
    IN IF found # NoShift /\ date_of(found) - date_of(current_dt) <= Day
       THEN found ELSE NoShift

get_next_shift_start(resource_shifts, current_dt) ==
    next_shift_scan(resource_shifts, current_dt, 0, 1)

\* end of the shift occurrence the code attributes to dt
shift_end_of(dt, shift) ==
    IF SHIFT_TIMES[shift][1] > SHIFT_TIMES[shift][2]
    THEN date_of(dt) + SHIFT_TIMES[shift][2] + Day
    ELSE date_of(dt) + SHIFT_TIMES[shift][2]

RECURSIVE add_hours_across_shifts(_, _, _)
add_hours_across_shifts(dt, hours_left, resource_shifts) ==
    IF dt = NoShift THEN NoShift
    ELSE IF hours_left <= 0 THEN dt
    ELSE IF is_sunday(dt)
         THEN add_hours_across_shifts(replace_midnight(next_working_day(dt)),
                                      hours_left, resource_shifts)
    ELSE LET shift == get_shift_for_time(time_of(dt))
         IN IF shift \notin resource_shifts
            THEN add_hours_across_shifts(get_next_shift_start(resource_shifts, dt),
                                         hours_left, resource_shifts)
            ELSE LET shift_end == shift_end_of(dt, shift)
                     available_time == shift_end - dt
                 IN IF available_time <= 0
                    THEN add_hours_across_shifts(get_next_shift_start(resource_shifts, dt),
                                                 hours_left, resource_shifts)
                    ELSE IF hours_left <= available_time
                         THEN dt + hours_left
                         ELSE add_hours_across_shifts(shift_end, hours_left - available_time,
                                                      resource_shifts)

\* ------------------------------------------------------------- resource
\* a booking is <<start, end, product_name, op_name>>; tuples compare
\* lexicographically, as Python tuples do
RECURSIVE tuple_less(_, _, _)
tuple_less(a, b, i) ==
    IF i > Len(a) \/ i > Len(b) THEN Len(a) < Len(b)
    ELSE IF a[i] < b[i] THEN TRUE
    ELSE IF a[i] > b[i] THEN FALSE
    ELSE tuple_less(a, b, i + 1)

RECURSIVE insert_sorted(_, _)
insert_sorted(sorted, x) ==
    IF sorted = <<>> THEN <<x>>
    ELSE IF tuple_less(x, Head(sorted), 1) THEN <<x>> \o sorted
    ELSE <<Head(sorted)>> \o insert_sorted(Tail(sorted), x)

RECURSIVE list_sort(_)
list_sort(seq) ==
    IF seq = <<>> THEN <<>>
    ELSE insert_sorted(list_sort(SubSeq(seq, 1, Len(seq) - 1)), seq[Len(seq)])

\* the overlap test with a booking's start where its end belongs
is_available_start_only(sched, start, end) ==
    \A i \in DOMAIN sched : end <= sched[i][1] \/ start >= sched[i][1]

is_available(sched, start, end) ==
    \A i \in DOMAIN sched : end <= sched[i][1] \/ start >= sched[i][2]

\* the booking appended and the list left unsorted
add_operation_unsorted(sched, start, end, product_name, operation) ==
    Append(sched, <<start, end, product_name, operation>>)

add_operation(sched, start, end, product_name, operation) ==
    list_sort(Append(sched, <<start, end, product_name, operation>>))

\* sorted(self.operational_shifts), and the same in reverse
RECURSIVE sorted_ids(_)
sorted_ids(S) ==
    IF S = {} THEN <<>>
    ELSE LET m == CHOOSE x \in S : \A y \in S : x <= y
         IN <<m>> \o sorted_ids(S \ {m})

RECURSIVE sorted_ids_reverse(_)
sorted_ids_reverse(S) ==
    IF S = {} THEN <<>>
    ELSE LET m == CHOOSE x \in S : \A y \in S : x >= y
         IN <<m>> \o sorted_ids_reverse(S \ {m})

RECURSIVE first_shift_scan(_, _, _, _)
first_shift_scan(ids, first_op_start, days_back, i) ==
    IF days_back > 6 THEN None
    ELSE LET day == date_of(first_op_start) - days_back * Day
         IN IF is_sunday(day) \/ i > Len(ids)
            THEN first_shift_scan(ids, first_op_start, days_back + 1, 1)
            ELSE LET shift_start == day + SHIFT_TIMES[ids[i]][1]
                 IN IF shift_start <= first_op_start THEN shift_start
                    ELSE first_shift_scan(ids, first_op_start, days_back, i + 1)

get_first_shift_start(sched, operational_shifts) ==
    IF sched = <<>> THEN None
    ELSE first_shift_scan(sorted_ids(operational_shifts), sched[1][1], 0, 1)

RECURSIVE last_shift_scan(_, _, _, _)
last_shift_scan(ids, last_op_end, days_ahead, i) ==
    IF days_ahead > 6 THEN None
    ELSE LET day == date_of(last_op_end) + days_ahead * Day
         IN IF is_sunday(day) \/ i > Len(ids)
            THEN last_shift_scan(ids, last_op_end, days_ahead + 1, 1)
            ELSE LET shift_end == shift_end_of(day, ids[i])
                 IN IF shift_end >= last_op_end THEN shift_end
                    ELSE last_shift_scan(ids, last_op_end, days_ahead, i + 1)

get_last_shift_end(sched, operational_shifts) ==
    IF sched = <<>> THEN None
    ELSE last_shift_scan(sorted_ids_reverse(operational_shifts),
                         sched[Len(sched)][2], 0, 1)

\* ------------------------------------------------------------ scheduler
RECURSIVE latest_end_scan(_, _, _)
latest_end_scan(sorted, latest_end, i) ==
    IF i > Len(sorted) THEN latest_end
    ELSE LET s == sorted[i][1]
             e == sorted[i][2]
         IN IF latest_end < s THEN latest_end
            ELSE IF s <= latest_end /\ latest_end < e
                 THEN latest_end_scan(sorted, e, i + 1)
                 ELSE latest_end_scan(sorted, latest_end, i + 1)

RECURSIVE snap_to_shift(_, _)
snap_to_shift(resource_shifts, candidate_start) ==
    IF candidate_start = NoShift THEN NoShift
    ELSE IF get_shift_for_time(time_of(candidate_start)) \in resource_shifts
            /\ ~is_sunday(candidate_start)
         THEN candidate_start
         ELSE snap_to_shift(resource_shifts,
                            get_next_shift_start(resource_shifts, candidate_start))

RECURSIVE find_earliest_slot(_, _, _, _)
find_earliest_slot(sched, resource_shifts, candidate, duration) ==
    IF is_sunday(candidate)
    THEN find_earliest_slot(sched, resource_shifts,
                            replace_midnight(next_working_day(candidate)), duration)
    ELSE LET latest_end == latest_end_scan(list_sort(sched), candidate, 1)
             candidate_start == snap_to_shift(resource_shifts, latest_end)
             candidate_end == add_hours_across_shifts(candidate_start, duration,
                                                      resource_shifts)
         IN IF candidate_start = NoShift \/ candidate_end = NoShift THEN NoShift
            ELSE IF is_available(sched, candidate_start, candidate_end)
                 THEN candidate_start
                 ELSE find_earliest_slot(sched, resource_shifts, candidate_end, duration)

\* Project.__init__: "<start_date> <int(start_time)>:00"
project_start_time(start_day, start_hour) == start_day * Day + start_hour * HalfHoursPerHour

\* sorted(projects, key=priority): stable insertion by priority
RECURSIVE insert_by_priority(_, _)
insert_by_priority(sorted, p) ==
    IF sorted = <<>> THEN <<p>>
    ELSE IF p.priority < Head(sorted).priority THEN <<p>> \o sorted
    ELSE <<Head(sorted)>> \o insert_by_priority(Tail(sorted), p)

RECURSIVE sort_projects(_)
sort_projects(input) ==
    IF input = <<>> THEN <<>>
    ELSE insert_by_priority(sort_projects(SubSeq(input, 1, Len(input) - 1)),
                            input[Len(input)])

\* error is the exception that ended the run or the call, None without one;
\* call is a direct call of a calendar function: its arguments and result
VARIABLES shifts, projects, schedule, current_op, completion_time,
          event_queue, counter, pc, error, call

vars == <<shifts, projects, schedule, current_op, completion_time,
          event_queue, counter, pc, error, call>>

\* the exceptions the code raises or lets through
ValueError == [type |-> "ValueError", args |-> <<"No valid shift found in the next 7 days">>]
IndexError == [type |-> "IndexError", args |-> <<"list index out of range">>]
KeyError(key) == [type |-> "KeyError", args |-> <<key>>]

NoCall == [fn |-> "none"]

\* ----------------------------------------------------------- the inputs
Priorities == {1, 2}
\* <<start_date as a day number, start_time as an hour>>: Saturday 22:00, 23:00
StartChoices == {<<5, 22>>, <<5, 23>>}
Durations == {HalfHoursPerHour * h : h \in {1, 3}}
ShiftConfigs ==
    { [r \in Resources |-> IF r = "R1" THEN {1} ELSE {2}],
      [r \in Resources |-> IF r = "R1" THEN {1, 2} ELSE {}] }

Operations(resources) == [res : resources, dur : Durations]

RECURSIVE sum_upto(_, _)
sum_upto(lens, n) == IF n = 0 THEN 0 ELSE lens[n] + sum_upto(lens, n - 1)

\* the input list of project descriptions: project i has priority and start
\* hdr[i] and the next lens[i] operations of flat. operations pairs the
\* entries of operation_sequence and operation_times; num_operations is the
\* length of the list of operation names
project_list(lens, hdr, flat) ==
    [i \in DOMAIN lens |->
        [name |-> i, priority |-> hdr[i][1],
         start_time |-> project_start_time(hdr[i][2][1], hdr[i][2][2]),
         num_operations |-> lens[i],
         operations |-> [k \in 1..lens[i] |-> flat[sum_upto(lens, i - 1) + k]]]]

\* NumProjects projects of up to MaxOps operations on any resource, and
\* NumContenders projects of one operation each, all on resource R1
GeneralCounts ==
    { l \in [1..NumProjects -> 0..MaxOps] : sum_upto(l, NumProjects) <= MaxTotalOps }
ContentionCounts == [1..NumContenders -> {1}]

\* ------------------------------------------------------------ event heap
\* the heap keyed by the insertion counter alone
event_less_by_seq(e, f) == e.seq < f.seq

\* ties on the ready time broken towards the event pushed last
event_less_lifo(e, f) == e.time < f.time \/ (e.time = f.time /\ e.seq > f.seq)

event_less(e, f) == e.time < f.time \/ (e.time = f.time /\ e.seq < f.seq)

\* the greatest tuple popped instead of the least
heap_min_greatest(queue) == { e \in queue : \A f \in queue : ~event_less(e, f) }

\* heapq.heappop: the least (time, counter) tuple of the heap
heap_min(queue) == { e \in queue : \A f \in queue : ~event_less(f, e) }

\* the event pushed at the project's declared start instead of start_time
schedule_operation_declared(queue, cnt, p, cursor, start_time) ==
    [event_queue |-> queue \cup {[time |-> projects[p].start_time, seq |-> cnt + 1,
                                  proj |-> p, op_idx |-> cursor]},
     counter |-> cnt + 1]

\* the counter left as it was
schedule_operation_same_counter(queue, cnt, p, cursor, start_time) ==
    [event_queue |-> queue \cup {[time |-> start_time, seq |-> cnt,
                                  proj |-> p, op_idx |-> cursor]},
     counter |-> cnt]

\* the heap replaced by the new event instead of pushed to
schedule_operation_overwrite(queue, cnt, p, cursor, start_time) ==
    [event_queue |-> {[time |-> start_time, seq |-> cnt + 1,
                       proj |-> p, op_idx |-> cursor]},
     counter |-> cnt + 1]

schedule_operation(queue, cnt, p, cursor, start_time) ==
    [event_queue |-> queue \cup {[time |-> start_time, seq |-> cnt + 1,
                                  proj |-> p, op_idx |-> cursor]},
     counter |-> cnt + 1]

\* every project seeded at its first operation, whatever its cursor
RECURSIVE seed_events_from_first(_, _, _)
seed_events_from_first(queue, cnt, p) ==
    IF p > Len(projects) THEN [event_queue |-> queue, counter |-> cnt]
    ELSE LET pushed == schedule_operation(queue, cnt, p, 0, projects[p].start_time)
         IN seed_events_from_first(pushed.event_queue, pushed.counter, p + 1)

RECURSIVE seed_events(_, _, _)
seed_events(queue, cnt, p) ==
    IF p > Len(projects) THEN [event_queue |-> queue, counter |-> cnt]
    ELSE LET pushed == schedule_operation(queue, cnt, p, current_op[p],
                                          projects[p].start_time)
         IN seed_events(pushed.event_queue, pushed.counter, p + 1)

\* the completion time set at every placement, not only at the last one
advance_project_every_time(rest, cnt, completion, p, cursor, nops, end) ==
    LET pushed == schedule_operation(rest, cnt, p, cursor, end)
    IN [event_queue |-> IF cursor < nops THEN pushed.event_queue ELSE rest,
        counter |-> IF cursor < nops THEN pushed.counter ELSE cnt,
        completion_time |-> [completion EXCEPT ![p] = end]]

\* the follow-up event pushed with the cursor as it was before it moved
advance_project_before_increment(rest, cnt, completion, p, cursor, nops, end) ==
    LET pushed == schedule_operation(rest, cnt, p, cursor - 1, end)
    IN IF cursor < nops
       THEN [event_queue |-> pushed.event_queue, counter |-> pushed.counter,
             completion_time |-> completion]
       ELSE [event_queue |-> rest, counter |-> cnt,
             completion_time |-> [completion EXCEPT ![p] = end]]

\* after the cursor moved: the follow-up event, or the completion time
advance_project(rest, cnt, completion, p, cursor, nops, end) ==
    LET pushed == schedule_operation(rest, cnt, p, cursor, end)
    IN IF cursor < nops
       THEN [event_queue |-> pushed.event_queue, counter |-> pushed.counter,
             completion_time |-> completion]
       ELSE [event_queue |-> rest, counter |-> cnt,
             completion_time |-> [completion EXCEPT ![p] = end]]

\* one pass of the body of the while loop of Scheduler.run, for the popped e
run_iteration(e) ==
    LET p == e.proj
        nops == projects[p].num_operations
        rest == event_queue \ {e}
        same == [schedule |-> schedule, current_op |-> current_op,
                 completion_time |-> completion_time, event_queue |-> rest,
                 counter |-> counter, pc |-> "loop", error |-> error,
                 kind |-> "discard"]
        raise(exception) == [same EXCEPT !.pc = "error", !.error = exception,
                                         !.kind = "abort"]
    IN IF e.op_idx >= nops THEN same
       ELSE IF e.op_idx >= Len(projects[p].operations) THEN raise(IndexError)
       ELSE IF projects[p].operations[e.op_idx + 1].res \notin Resources
            THEN raise(KeyError(projects[p].operations[e.op_idx + 1].res))
       ELSE LET op == projects[p].operations[e.op_idx + 1]
                r == op.res
                start == find_earliest_slot(schedule[r], shifts[r], e.time, op.dur)
                end == add_hours_across_shifts(start, op.dur, shifts[r])
                cursor == current_op[p] + 1
                after == advance_project(rest, counter, completion_time, p, cursor, nops, end)
            IN IF start = NoShift \/ end = NoShift
               THEN raise(ValueError)
               ELSE [schedule |-> [schedule EXCEPT ![r] =
                                     add_operation(@, start, end, projects[p].name, e.op_idx)],
                     current_op |-> [current_op EXCEPT ![p] = cursor],
                     completion_time |-> after.completion_time,
                     event_queue |-> after.event_queue,
                     counter |-> after.counter,
                     pc |-> "loop", error |-> error, kind |-> "place"]

Apply(o) ==
    /\ schedule' = o.schedule
    /\ current_op' = o.current_op
    /\ completion_time' = o.completion_time
    /\ event_queue' = o.event_queue
    /\ counter' = o.counter
    /\ pc' = o.pc
    /\ error' = o.error
    /\ UNCHANGED <<shifts, projects, call>>

\* ------------------------------------------------------------ idle times
\* the time the bookings take from [shift_start, shift_end)
RECURSIVE overlap_sum(_, _, _, _)
overlap_sum(intervals, shift_start, shift_end, i) ==
    IF i > Len(intervals) THEN 0
    ELSE LET overlap_start == IF shift_start > intervals[i][1]
                              THEN shift_start ELSE intervals[i][1]
             overlap_end == IF shift_end < intervals[i][2]
                            THEN shift_end ELSE intervals[i][2]
         IN (IF overlap_start < overlap_end THEN overlap_end - overlap_start ELSE 0)
            + overlap_sum(intervals, shift_start, shift_end, i + 1)

shift_idle_of(intervals, day, shift) ==
    LET shift_start == day + SHIFT_TIMES[shift][1]
        shift_end == shift_end_of(day, shift)
        shift_idle == (shift_end - shift_start)
                      - overlap_sum(intervals, shift_start, shift_end, 1)
    IN IF shift_idle > 0 THEN shift_idle ELSE 0

\* the for loop over the operational shifts on the day of current
RECURSIVE day_idle(_, _, _)
day_idle(intervals, day, todo) ==
    IF todo = {} THEN 0
    ELSE LET shift == CHOOSE x \in todo : TRUE
         IN shift_idle_of(intervals, day, shift)
            + day_idle(intervals, day, todo \ {shift})

\* the while loop from first_shift_start to last_shift_end
RECURSIVE idle_scan(_, _, _, _)
idle_scan(intervals, operational_shifts, current, last_shift_end) ==
    IF current >= last_shift_end THEN 0
    ELSE IF is_sunday(current)
         THEN idle_scan(intervals, operational_shifts,
                        replace_midnight(next_working_day(current)), last_shift_end)
         ELSE day_idle(intervals, date_of(current), operational_shifts)
              + idle_scan(intervals, operational_shifts, current + Day, last_shift_end)

\* idle_times[res_name], in half hours
calculate_idle_times(res_name) ==
    LET intervals == list_sort(schedule[res_name])
        first_shift_start == get_first_shift_start(schedule[res_name], shifts[res_name])
        last_shift_end == get_last_shift_end(schedule[res_name], shifts[res_name])
    IN IF schedule[res_name] = <<>> THEN 0
       ELSE IF first_shift_start = None \/ last_shift_end = None THEN 0
       ELSE idle_scan(intervals, shifts[res_name], first_shift_start, last_shift_end)

Init ==
    /\ shifts \in ShiftConfigs
    /\ \E lens \in GeneralCounts \cup ContentionCounts :
         \E hdr \in [DOMAIN lens -> Priorities \X StartChoices] :
           \E flat \in [1..sum_upto(lens, Len(lens)) ->
                           Operations(IF lens \in ContentionCounts THEN {"R1"} ELSE Resources)] :
             projects = sort_projects(project_list(lens, hdr, flat))
    /\ schedule = [r \in Resources |-> <<>>]
    /\ current_op = [p \in DOMAIN projects |-> 0]
    /\ completion_time = [p \in DOMAIN projects |-> None]
    /\ event_queue = {}
    /\ counter = 0
    /\ pc = "init"
    /\ error = None
    /\ call = NoCall

\* the for loop of run: one event per project, in priority order
Seed ==
    /\ pc = "init"
    /\ LET seeded == seed_events(event_queue, counter, 1)
       IN /\ event_queue' = seeded.event_queue
          /\ counter' = seeded.counter
    /\ pc' = "loop"
    /\ UNCHANGED <<shifts, projects, schedule, current_op, completion_time,
                   error, call>>

Discard ==
    /\ pc = "loop"
    /\ \E e \in heap_min(event_queue) : \E o \in {run_iteration(e)} :
         /\ o.kind = "discard"
         /\ Apply(o)

Place ==
    /\ pc = "loop"
    /\ \E e \in heap_min(event_queue) : \E o \in {run_iteration(e)} :
         /\ o.kind = "place"
         /\ Apply(o)

Abort ==
    /\ pc = "loop"
    /\ \E e \in heap_min(event_queue) : \E o \in {run_iteration(e)} :
         /\ o.kind = "abort"
         /\ Apply(o)

Finish ==
    /\ pc = "loop"
    /\ event_queue = {}
    /\ pc' = "done"
    /\ UNCHANGED <<shifts, projects, schedule, current_op, completion_time,
                   event_queue, counter, error, call>>

Next == Seed \/ Discard \/ Place \/ Abort \/ Finish

Spec == Init /\ [][Next]_vars

\* ------------------------------------------------------ malformed input
\* a resource name that no machine or work center has
MissingResource == "R3"
\* len(operations) - len(operation_sequence): the list of operation names
\* one shorter, as long, or one longer than the lists zipped in operations
LengthErrors == {-1, 0, 1}

\* the project list with the lengths of the name lists changed by extra
misnamed(input, extra) ==
    [i \in DOMAIN input |->
        [input[i] EXCEPT !.num_operations = @ + extra[i]]]

\* as Init, with projects that may name MissingResource and may have a list
\* of operation names of another length than their other lists
InputErrorInit ==
    /\ shifts \in ShiftConfigs
    /\ \E lens \in GeneralCounts :
         \E hdr \in [DOMAIN lens -> Priorities \X StartChoices] :
           \E flat \in [1..sum_upto(lens, Len(lens)) ->
                           Operations(Resources \cup {MissingResource})] :
             \E extra \in [DOMAIN lens -> LengthErrors] :
               /\ \A i \in DOMAIN lens : lens[i] + extra[i] >= 0
               /\ projects = sort_projects(misnamed(project_list(lens, hdr, flat), extra))
    /\ schedule = [r \in Resources |-> <<>>]
    /\ current_op = [p \in DOMAIN projects |-> 0]
    /\ completion_time = [p \in DOMAIN projects |-> None]
    /\ event_queue = {}
    /\ counter = 0
    /\ pc = "init"
    /\ error = None
    /\ call = NoCall

InputErrorSpec == InputErrorInit /\ [][Next]_vars

\* ------------------------------------------------ run, called again
\* run can be called again on a scheduler whose run has ended: nothing is
\* reset, and its for loop seeds one event for each project at the
\* project's cursor. MaxCounter caps the sequence numbers, so the calls.
MaxCounter == 7

Rerun ==
    /\ pc = "done"
    /\ counter + Len(projects) <= MaxCounter
    /\ LET seeded == seed_events(event_queue, counter, 1)
       IN /\ event_queue' = seeded.event_queue
          /\ counter' = seeded.counter
    /\ pc' = "loop"
    /\ UNCHANGED <<shifts, projects, schedule, current_op, completion_time,
                   error, call>>

RerunNext == Next \/ Rerun

RerunSpec == Init /\ [][RerunNext]_vars

\* ------------------------------------- the machine-only variant
\* MachineScheduling.py has the calendar functions, the Machine class,
\* find_earliest_slot and schedule_operation of CapacityPlanning.py under
\* other names; its Project and the body of its run are its own. Its state
\* is a record m with the fields of the scheduler state above.

\* zip stopping one entry before the end of the shortest list
zip_operations_short(project) ==
    LET n == IF project.num_operations < Len(project.operations)
             THEN project.num_operations ELSE Len(project.operations)
    IN SubSeq(project.operations, 1, n - 1)

\* list(zip(operations, machine_sequence, operation_times)): as long as the
\* shortest of the lists
zip_operations(project) ==
    LET n == IF project.num_operations < Len(project.operations)
             THEN project.num_operations ELSE Len(project.operations)
    IN SubSeq(project.operations, 1, n)

machine_init ==
    [schedule |-> [r \in Resources |-> <<>>],
     current_op |-> [p \in DOMAIN projects |-> 0],
     completion_time |-> [p \in DOMAIN projects |-> None],
     event_queue |-> {}, counter |-> 0, pc |-> "init", error |-> None]

\* the for loop of run
RECURSIVE machine_seed(_, _)
machine_seed(m, p) ==
    IF p > Len(projects) THEN [m EXCEPT !.pc = "loop"]
    ELSE LET pushed == schedule_operation(m.event_queue, m.counter, p,
                                          m.current_op[p], projects[p].start_time)
         IN machine_seed([m EXCEPT !.event_queue = pushed.event_queue,
                                   !.counter = pushed.counter], p + 1)

\* one pass of the body of the while loop of run, for the popped e
machine_run_iteration(m, e) ==
    LET p == e.proj
        operations == zip_operations(projects[p])
        popped == [m EXCEPT !.event_queue = m.event_queue \ {e}]
    IN IF e.op_idx >= Len(operations) THEN popped
       ELSE IF operations[e.op_idx + 1].res \notin Resources
            THEN [popped EXCEPT !.pc = "error",
                                !.error = KeyError(operations[e.op_idx + 1].res)]
       ELSE LET machine_name == operations[e.op_idx + 1].res
                duration == operations[e.op_idx + 1].dur
                start == find_earliest_slot(m.schedule[machine_name],
                                            shifts[machine_name], e.time, duration)
                end == add_hours_across_shifts(start, duration, shifts[machine_name])
                cursor == m.current_op[p] + 1
                after == advance_project(popped.event_queue, m.counter,
                                         m.completion_time, p, cursor,
                                         Len(operations), end)
            IN IF start = NoShift \/ end = NoShift
               THEN [popped EXCEPT !.pc = "error", !.error = ValueError]
               ELSE [schedule |-> [m.schedule EXCEPT ![machine_name] =
                                     add_operation(@, start, end, projects[p].name, e.op_idx)],
                     current_op |-> [m.current_op EXCEPT ![p] = cursor],
                     completion_time |-> after.completion_time,
                     event_queue |-> after.event_queue,
                     counter |-> after.counter,
                     pc |-> "loop", error |-> m.error]

\* a step of run: the seeding, a pass of the loop, or the end of the loop
machine_step(m) ==
    IF m.pc = "init" THEN machine_seed(m, 1)
    ELSE IF m.pc # "loop" THEN m
    ELSE IF m.event_queue = {} THEN [m EXCEPT !.pc = "done"]
    ELSE machine_run_iteration(m, CHOOSE e \in heap_min(m.event_queue) : TRUE)

\* the state of the machine-only scheduler after n steps on the same input
RECURSIVE machine_after(_)
machine_after(n) == IF n = 0 THEN machine_init ELSE machine_step(machine_after(n - 1))

\* inputs for both variants: one start, machines that exist, and lists of
\* operation names as in InputErrorInit
OneStart == { CHOOSE c \in StartChoices : \A d \in StartChoices : c[2] <= d[2] }

VariantInit ==
    /\ shifts \in ShiftConfigs
    /\ \E lens \in GeneralCounts :
         \E hdr \in [DOMAIN lens -> Priorities \X OneStart] :
           \E flat \in [1..sum_upto(lens, Len(lens)) -> Operations(Resources)] :
             \E extra \in [DOMAIN lens -> LengthErrors] :
               /\ \A i \in DOMAIN lens : lens[i] + extra[i] >= 0
               /\ projects = sort_projects(misnamed(project_list(lens, hdr, flat), extra))
    /\ schedule = [r \in Resources |-> <<>>]
    /\ current_op = [p \in DOMAIN projects |-> 0]
    /\ completion_time = [p \in DOMAIN projects |-> None]
    /\ event_queue = {}
    /\ counter = 0
    /\ pc = "init"
    /\ error = None
    /\ call = NoCall

VariantSpec == VariantInit /\ [][Next]_vars

\* ------------------------------------------- calendar functions, called
\* directly with any timestamp of the first weeks and any set of shifts,
\* a shift that is not in SHIFT_TIMES included
ProbeTimes == 0..(ProbeWeeks * 7 * Day - 1)
ProbeDurations == { HalfHoursPerHour * h : h \in 1..MaxProbeHours }
ProbeShiftSets == SUBSET (ShiftIds \cup {Len(SHIFT_TIMES) + 1})

NextShiftCalls ==
    [fn : {"get_next_shift_start"}, resource_shifts : ProbeShiftSets,
     dt : ProbeTimes, hours : {0}, result : {None}]

AddHoursCalls ==
    [fn : {"add_hours_across_shifts"}, resource_shifts : SUBSET ShiftIds,
     dt : ProbeTimes, hours : ProbeDurations, result : {None}]

CalendarInit ==
    /\ call \in NextShiftCalls \cup AddHoursCalls
    /\ shifts = [r \in Resources |-> {}]
    /\ projects = <<>>
    /\ schedule = [r \in Resources |-> <<>>]
    /\ current_op = <<>>
    /\ completion_time = <<>>
    /\ event_queue = {}
    /\ counter = 0
    /\ pc = "call"
    /\ error = None

\* the call returns, or raises the ValueError
Return(value) ==
    /\ call' = [call EXCEPT !.result = value]
    /\ pc' = IF value = NoShift THEN "error" ELSE "returned"
    /\ error' = IF value = NoShift THEN ValueError ELSE error
    /\ UNCHANGED <<shifts, projects, schedule, current_op, completion_time,
                   event_queue, counter>>

CallNextShiftStart ==
    /\ pc = "call"
    /\ call.fn = "get_next_shift_start"
    /\ Return(get_next_shift_start(call.resource_shifts, call.dt))

CallAddHours ==
    /\ pc = "call"
    /\ call.fn = "add_hours_across_shifts"
    /\ Return(add_hours_across_shifts(call.dt, call.hours, call.resource_shifts))

CalendarNext == CallNextShiftStart \/ CallAddHours

CalendarSpec == CalendarInit /\ [][CalendarNext]_vars

\* runs of the scheduler and direct calls of the calendar functions
RunOrCallSpec == (Init \/ CalendarInit) /\ [][Next \/ CalendarNext]_vars

\* ------------------------------------------------------------ properties
Bookings(r) == { schedule[r][i] : i \in DOMAIN schedule[r] }

\* the bookings of operation k (counted from 0) of the project at position p
BookingsOf(p, k) ==
    { b \in Bookings(projects[p].operations[k + 1].res) :
        b[3] = projects[p].name /\ b[4] = k }

OpIndexes(p) == 0..(Len(projects[p].operations) - 1)

\* C1: two distinct bookings of one resource never overlap: one ends at or
\* before the start of the other
NoOverlap ==
    \A r \in Resources : \A i, j \in DOMAIN schedule[r] :
        i # j => \/ schedule[r][i][2] <= schedule[r][j][1]
                 \/ schedule[r][j][2] <= schedule[r][i][1]

\* two projects ready at the same instant were booked one after the other
\* on one resource
NoOverlapWitness ==
    \E r \in Resources : \E i, j \in DOMAIN schedule[r] :
        /\ i # j
        /\ schedule[r][i][2] = schedule[r][j][1]
        /\ \E p, q \in DOMAIN projects :
             /\ projects[p].name = schedule[r][i][3]
             /\ projects[q].name = schedule[r][j][3]
             /\ p # q
             /\ projects[p].start_time = projects[q].start_time

\* C2: operation 0 of a project is booked at or after the declared start,
\* and operation k+1 is booked only when operation k is, and starts at or
\* after the booked end of operation k
SequenceFidelity ==
    \A p \in DOMAIN projects : \A k \in OpIndexes(p) : \A b \in BookingsOf(p, k) :
        /\ k = 0 => b[1] >= projects[p].start_time
        /\ k > 0 => \E a \in BookingsOf(p, k - 1) : a[2] <= b[1]

\* a project has two operations booked, on two resources
SequenceFidelityWitness ==
    \E p \in DOMAIN projects :
        /\ Len(projects[p].operations) = 2
        /\ projects[p].operations[1].res # projects[p].operations[2].res
        /\ BookingsOf(p, 0) # {}
        /\ BookingsOf(p, 1) # {}

\* t lies in an occurrence of a shift of S that begins on a day other than
\* Sunday (an overnight occurrence runs on into the next morning)
InShiftOccurrence(t, S) ==
    \E s \in S : \E d \in {date_of(t), date_of(t) - Day} :
        /\ ~is_sunday(d)
        /\ d + SHIFT_TIMES[s][1] <= t
        /\ t < d + SHIFT_TIMES[s][2]
               + (IF SHIFT_TIMES[s][1] > SHIFT_TIMES[s][2] THEN Day ELSE 0)

CoveredTime(b, S) == Cardinality({ t \in b[1]..(b[2] - 1) : InShiftOccurrence(t, S) })

DurationOf(b) ==
    LET p == CHOOSE q \in DOMAIN projects : projects[q].name = b[3]
    IN projects[p].operations[b[4] + 1].dur

\* C3: the part of every booked interval that lies inside the operational
\* shifts of its resource is as long as the duration of the operation
ShiftContainment ==
    \A r \in Resources : \A b \in Bookings(r) :
        CoveredTime(b, shifts[r]) = DurationOf(b)

\* C4: no booking starts or ends on Sunday
NoSundayTimestamp ==
    \A r \in Resources : \A b \in Bookings(r) : ~is_sunday(b[1]) /\ ~is_sunday(b[2])

\* t is an instant the slot search accepts as inside a shift of S, and the
\* interval of the given duration from t is free on the timeline
FeasibleAt(sched, S, t, duration) ==
    /\ get_shift_for_time(time_of(t)) \in S
    /\ ~is_sunday(t)
    /\ LET end == add_hours_across_shifts(t, duration, S)
       IN \A i \in DOMAIN sched : end <= sched[i][1] \/ t >= sched[i][2]

EarliestSlotStep ==
    \A r \in Resources :
        Len(schedule'[r]) > Len(schedule[r]) =>
            LET e == CHOOSE x \in heap_min(event_queue) : TRUE
                op == projects[e.proj].operations[e.op_idx + 1]
                b == CHOOSE x \in { schedule'[r][i] : i \in DOMAIN schedule'[r] } :
                        x[3] = projects[e.proj].name /\ x[4] = e.op_idx
            IN /\ FeasibleAt(schedule[r], shifts[r], b[1], op.dur)
               /\ \A t \in e.time..(b[1] - 1) :
                      ~FeasibleAt(schedule[r], shifts[r], t, op.dur)

\* C5: every placement books the operation at the least instant, at or after
\* its ready time, that is inside a shift and from which the duration fits
\* without overlapping the bookings already on the resource
EarliestFeasibleSlot == [][EarliestSlotStep]_vars

\* project p comes before project q: lower priority rank, or the same rank
\* and earlier in the input list
ComesBefore(p, q) ==
    \/ projects[p].priority < projects[q].priority
    \/ /\ projects[p].priority = projects[q].priority
       /\ projects[p].name < projects[q].name

\* C7: of two projects with the same declared start whose first operations
\* use the same resource, the one that comes first has its first operation
\* in the earlier slot, and the other starts at or after the end of that slot
ContentionTieBreak ==
    \A p, q \in DOMAIN projects :
        ( /\ p # q
          /\ projects[p].operations # <<>>
          /\ projects[q].operations # <<>>
          /\ projects[p].start_time = projects[q].start_time
          /\ projects[p].operations[1].res = projects[q].operations[1].res
          /\ ComesBefore(p, q)
          /\ BookingsOf(q, 0) # {} )
        => \E a \in BookingsOf(p, 0) : \A b \in BookingsOf(q, 0) :
               a[1] < b[1] /\ a[2] <= b[1]

\* the states one pass of the loop can lead to
Outcomes == { run_iteration(e) : e \in heap_min(event_queue) }

\* C6: no step of a run has more than one outcome: the event popped and the
\* state the pass of the loop leaves are determined by the current state
Determinism == pc = "loop" => Cardinality(Outcomes) <= 1

\* two events with the same ready time are pending
DeterminismWitness ==
    /\ pc = "loop"
    /\ \E e, f \in event_queue : e # f /\ e.time = f.time

\* C8, on states: a project declared to start strictly earlier has its
\* first operation placed before that of a later one, whatever the ranks
ReadyTimeOrder ==
    \A a, b \in DOMAIN projects :
        ( /\ projects[a].start_time < projects[b].start_time
          /\ projects[a].operations # <<>>
          /\ current_op[b] >= 1 )
        => current_op[a] >= 1

\* C8, on steps: a booking once placed stays where it is
BookingsKept ==
    \A r \in Resources : \A b \in Bookings(r) :
        \E i \in DOMAIN schedule'[r] : schedule'[r][i] = b

\* C8: priority only breaks ties; it never overrides the order of ready
\* times and never moves or removes a booking
PriorityOnlyTieBreak == []ReadyTimeOrder /\ [][BookingsKept]_vars

\* the project with the better rank starts later, and both are placed
PriorityOnlyTieBreakWitness ==
    \E a, b \in DOMAIN projects :
        /\ projects[a].start_time < projects[b].start_time
        /\ projects[b].priority < projects[a].priority
        /\ current_op[a] >= 1
        /\ current_op[b] >= 1
        /\ projects[a].operations[1].res = projects[b].operations[1].res

\* every operation targets a resource that has an operational shift
InputUsable ==
    \A p \in DOMAIN projects : \A k \in DOMAIN projects[p].operations :
        shifts[projects[p].operations[k].res] # {}

TotalOperations ==
    sum_upto([p \in DOMAIN projects |-> Len(projects[p].operations)], Len(projects))
PlacedOperations == sum_upto(current_op, Len(projects))

RECURSIVE bookings_on(_)
bookings_on(rs) ==
    IF rs = {} THEN 0
    ELSE LET r == CHOOSE x \in rs : TRUE IN Len(schedule[r]) + bookings_on(rs \ {r})

TotalBookings == bookings_on(Resources)

Complete ==
    /\ event_queue = {}
    /\ \A p \in DOMAIN projects :
         /\ current_op[p] = Len(projects[p].operations)
         /\ \A k \in OpIndexes(p) :
              Cardinality({ i \in DOMAIN schedule[projects[p].operations[k + 1].res] :
                              LET b == schedule[projects[p].operations[k + 1].res][i]
                              IN b[3] = projects[p].name /\ b[4] = k }) = 1
    /\ TotalBookings = TotalOperations

\* what is left to do: operations to place, events to pop, the loop to leave
Remaining ==
    2 * (TotalOperations - PlacedOperations) + Cardinality(event_queue)
    + (IF pc = "init" THEN Len(projects) + 2 ELSE IF pc = "loop" THEN 1 ELSE 0)

\* a run that has not ended has a next step, and does not abort
Progress ==
    /\ Remaining >= 0
    /\ pc = "loop" /\ event_queue # {} => heap_min(event_queue) # {}
    /\ InputUsable => pc # "error"

\* C9: with every operation on a resource that has a shift, the run ends:
\* it never aborts or gets stuck, and every step takes from what is left to
\* do; it ends with an empty event queue, every operation booked exactly
\* once and every cursor at the end of its operation list
Termination ==
    /\ []Progress
    /\ [][Remaining' < Remaining]_vars
    /\ [](pc = "done" => Complete)

\* a run of two projects with operations has ended
TerminationWitness ==
    /\ pc = "done"
    /\ InputUsable
    /\ TotalOperations >= 2
    /\ \E p, q \in DOMAIN projects :
         p # q /\ projects[p].operations # <<>> /\ projects[q].operations # <<>>

LastEnd(p) ==
    LET last == Len(projects[p].operations) - 1
    IN { b[2] : b \in BookingsOf(p, last) }

\* C10, on states: a completion time is set only with the cursor at the end
\* of the operation list, and is the booked end of the last operation, the
\* latest booked end of the project
CompletionAtEnd ==
    \A p \in DOMAIN projects :
        completion_time[p] # None =>
            /\ current_op[p] = Len(projects[p].operations)
            /\ LastEnd(p) = {completion_time[p]}
            /\ \A k \in OpIndexes(p) : \A b \in BookingsOf(p, k) :
                   b[2] <= completion_time[p]

\* C10, on steps: a completion time once set is not changed
CompletionKept ==
    \A p \in DOMAIN projects :
        completion_time[p] # None => completion_time'[p] = completion_time[p]

\* C10: a completion time is set only when the cursor is at the end of the
\* operation list, equals the booked end of the last operation, and is never
\* changed once set
CompletionTimestamp == []CompletionAtEnd /\ [][CompletionKept]_vars

\* a project of two operations is complete at the end of the run
CompletionTimestampWitness ==
    \E p \in DOMAIN projects :
        /\ Len(projects[p].operations) = 2
        /\ completion_time[p] # None
        /\ pc = "done"

\* the time booked on resource r
RECURSIVE booked_sum(_, _)
booked_sum(sched, i) ==
    IF i > Len(sched) THEN 0
    ELSE (sched[i][2] - sched[i][1]) + booked_sum(sched, i + 1)

\* the time inside the operational shifts of r between the two ends of the
\* scan window
ShiftTimeInWindow(r) ==
    LET first == get_first_shift_start(schedule[r], shifts[r])
        last == get_last_shift_end(schedule[r], shifts[r])
    IN Cardinality({ t \in first..(last - 1) : InShiftOccurrence(t, shifts[r]) })

\* C11: after a run, on every resource with a booking, the time booked plus
\* the idle time reported is the time of the operational shifts of the
\* resource inside the scan window
IdleBusyClosure ==
    pc = "done" =>
        \A r \in Resources :
            schedule[r] # <<>> =>
                booked_sum(schedule[r], 1) + calculate_idle_times(r) = ShiftTimeInWindow(r)

\* get_next_shift_start has returned or raised
NextShiftCalled ==
    /\ call.fn = "get_next_shift_start"
    /\ pc \in {"returned", "error"}

\* C12, on calls: get_next_shift_start raises the ValueError when the set
\* holds no shift of SHIFT_TIMES, and returns a timestamp when it holds one
NoShiftExactly ==
    NextShiftCalled =>
        /\ (pc = "error") = (call.resource_shifts \cap ShiftIds = {})
        /\ pc = "error" => error = ValueError /\ call.result = NoShift
        /\ pc = "returned" => call.result \in Nat /\ error = None

\* C12, on runs: the operation of the popped event is on a resource that
\* has no shift of SHIFT_TIMES
TargetsNoShift ==
    /\ pc = "loop"
    /\ event_queue # {}
    /\ LET e == CHOOSE x \in heap_min(event_queue) : TRUE
       IN /\ e.op_idx < Len(projects[e.proj].operations)
          /\ shifts[projects[e.proj].operations[e.op_idx + 1].res] \cap ShiftIds = {}

\* C12, on runs: the step that pops such an event aborts with the
\* ValueError and books nothing, and no other step of a run aborts
EmptyShiftAborts ==
    /\ TargetsNoShift =>
           /\ pc' = "error"
           /\ error' = ValueError
           /\ schedule' = schedule
           /\ current_op' = current_op
    /\ (pc = "loop" /\ pc' = "error") => TargetsNoShift

\* C12: get_next_shift_start fails with the no-shift error exactly when the
\* set holds no shift of the shift table, and a run aborts with that error,
\* booking nothing more, when an operation is on a resource without shifts
NoShiftError == []NoShiftExactly /\ [][EmptyShiftAborts]_vars

\* a run aborted with the ValueError after it had booked an operation
NoShiftErrorWitness ==
    /\ call = NoCall
    /\ pc = "error"
    /\ error = ValueError
    /\ \E r \in Resources : schedule[r] # <<>>

\* a project names a resource that is not there, or its list of operation
\* names is not as long as its other lists
InputMalformed ==
    \E p \in DOMAIN projects :
        \/ projects[p].num_operations # Len(projects[p].operations)
        \/ \E k \in DOMAIN projects[p].operations :
               projects[p].operations[k].res \notin Resources

\* C13: with such an input no event is ever popped and nothing is ever
\* booked: every event pushed is still pending, every timeline is empty and
\* every cursor is 0, in every state of the run, the one where the error
\* surfaces included
InputErrorsFirst ==
    InputMalformed =>
        /\ Cardinality(event_queue) = counter
        /\ \A r \in Resources : schedule[r] = <<>>
        /\ \A p \in DOMAIN projects : current_op[p] = 0

\* the exception names x
Names(exception, x) == \E i \in DOMAIN exception.args : exception.args[i] = x

\* the step raises the error for the operation of the popped event: the
\* ValueError names the resource of the operation, and the KeyError and the
\* IndexError name the project and the reference that is missing
ErrorNamesCulprit ==
    (pc = "loop" /\ pc' = "error") =>
        LET e == CHOOSE x \in heap_min(event_queue) : TRUE
            project == ToString(projects[e.proj].name)
            ops == projects[e.proj].operations
        IN /\ error'.type = "ValueError" => Names(error', ops[e.op_idx + 1].res)
           /\ error'.type = "KeyError" =>
                  Names(error', ops[e.op_idx + 1].res) /\ Names(error', project)
           /\ error'.type = "IndexError" =>
                  Names(error', ToString(e.op_idx)) /\ Names(error', project)

\* C14: the error for a resource without a usable shift carries the name of
\* the resource, and the error for a bad reference of a project carries the
\* name of the project and the reference
ErrorIdentification == [][ErrorNamesCulprit]_vars

\* the events a step takes from the queue, and those it adds
Popped == event_queue \ event_queue'
Pushed == event_queue' \ event_queue

\* e is before f, or is f, in the order of (ready time, sequence number)
FirstInFirstOut(e, f) == e.time < f.time \/ (e.time = f.time /\ e.seq <= f.seq)

\* C15, on states: the sequence numbers of the pending events are distinct
\* and none is greater than the counter, so no two events tie on (ready
\* time, sequence number) and the comparison never reaches the project
SequenceNumbersUnique ==
    \A e, f \in event_queue :
        /\ e.seq \in 1..counter
        /\ e # f => e.seq # f.seq

\* C15, on steps: a step of the loop pops one event, the least by (ready
\* time, sequence number); every event pushed has a sequence number above
\* all the earlier ones; the first events are numbered in project order
FifoStep ==
    /\ pc = "loop" /\ event_queue # {} =>
           /\ Cardinality(Popped) = 1
           /\ \A e \in Popped : \A f \in event_queue : FirstInFirstOut(e, f)
    /\ \A e \in Pushed :
           /\ e.seq > counter
           /\ e.seq <= counter'
           /\ \A f \in event_queue : e.seq > f.seq
    /\ pc = "init" => \A e \in Pushed : e.seq = e.proj
    /\ counter' = counter + Cardinality(Pushed)

\* C15: the event popped is the pending one with the least (ready time,
\* sequence number); sequence numbers are unique and strictly increasing,
\* so of events with the same ready time the first pushed is popped first
FifoTieBreak == []SequenceNumbersUnique /\ [][FifoStep]_vars

\* of two projects with the same start, the first one's event was popped and
\* placed while the second one's first event is still pending
FifoTieBreakWitness ==
    \E p, q \in DOMAIN projects :
        /\ p < q
        /\ projects[p].start_time = projects[q].start_time
        /\ current_op[p] >= 1
        /\ \E f \in event_queue : f.proj = q /\ f.op_idx = 0 /\ f.seq = q

\* the events left after a pop, the follow-up event included, are ready no
\* earlier than the event popped; the next event popped is one of them
MonotoneStep ==
    pc = "loop" =>
        \A e \in Popped :
            /\ \A f \in event_queue' : f.time >= e.time
            /\ \A r \in Resources : \A i \in DOMAIN schedule'[r] :
                   schedule'[r][i] \notin Bookings(r) => schedule'[r][i][1] >= e.time

\* C16: the ready times of the events popped one after the other never
\* decrease, and a booking is made no earlier than the ready time popped
MonotoneEvents == [][MonotoneStep]_vars

\* a follow-up event is pending, ready later than its project started, next
\* to the first event of another project
MonotoneEventsWitness ==
    \E e, f \in event_queue :
        /\ e.op_idx = 1
        /\ e.time > projects[e.proj].start_time
        /\ f.proj # e.proj
        /\ f.op_idx = 0

\* C17, on states: at most one event is pending per project, and its
\* operation index is the cursor of the project
OnePendingEvent ==
    /\ \A e, f \in event_queue : e.proj = f.proj => e = f
    /\ \A e \in event_queue : e.op_idx = current_op[e.proj]

\* C17, on steps: an event is discarded only when its project has no
\* operation left to place
DiscardOnlyWhenDone ==
    (pc = "loop" /\ pc' = "loop" /\ schedule' = schedule) =>
        \A e \in Popped : current_op[e.proj] = Len(projects[e.proj].operations)

\* C17: the queue holds at most one event per project, at the cursor of the
\* project, and no event of a project with operations to place is discarded
SinglePendingEvent == []OnePendingEvent /\ [][DiscardOnlyWhenDone]_vars

\* the follow-up event of a project is pending, and the only event of a
\* project without operations has been discarded
SinglePendingEventWitness ==
    \E e \in event_queue : \E q \in DOMAIN projects :
        /\ e.op_idx = 1 /\ current_op[e.proj] = 1
        /\ q # e.proj
        /\ projects[q].operations = <<>>
        /\ \A f \in event_queue : f.proj # q

\* add_hours_across_shifts was called at an instant that is not on Sunday
\* and that get_shift_for_time puts in a shift of the set
AddHoursCalledInShift ==
    /\ call.fn = "add_hours_across_shifts"
    /\ pc \in {"returned", "error"}
    /\ ~is_sunday(call.dt)
    /\ get_shift_for_time(time_of(call.dt)) \in call.resource_shifts

\* C18: the timestamp get_next_shift_start returns is not on Sunday, and the
\* shift end add_hours_across_shifts computes for an instant inside a shift
\* is not on Sunday
NextShiftNotSunday ==
    /\ (NextShiftCalled /\ pc = "returned") => ~is_sunday(call.result)
    /\ AddHoursCalledInShift =>
           ~is_sunday(shift_end_of(call.dt, get_shift_for_time(time_of(call.dt))))

\* a shift of S starts at t, on a day that is not Sunday
ShiftStartsAt(t, S) ==
    /\ ~is_sunday(t)
    /\ \E s \in S \cap ShiftIds : time_of(t) = SHIFT_TIMES[s][1]

\* C19: the timestamp get_next_shift_start returns is after the one given,
\* is the wall-clock start of a shift of the set, and no shift of the set
\* starts on a working day between the two
NextShiftIsNext ==
    (NextShiftCalled /\ pc = "returned") =>
        /\ call.result > call.dt
        /\ \E s \in call.resource_shifts \cap ShiftIds :
               time_of(call.result) = SHIFT_TIMES[s][1]
        /\ \A t \in (call.dt + 1)..(call.result - 1) :
               ~ShiftStartsAt(t, call.resource_shifts)

\* how long shift s is, and where the occurrence of s that holds dt ends: an
\* overnight shift entered after midnight ends the same day
ShiftLength(s) == (SHIFT_TIMES[s][2] - SHIFT_TIMES[s][1]) % Day
OccurrenceEnd(dt, s) ==
    IF SHIFT_TIMES[s][1] > SHIFT_TIMES[s][2] /\ time_of(dt) >= SHIFT_TIMES[s][1]
    THEN date_of(dt) + SHIFT_TIMES[s][2] + Day
    ELSE date_of(dt) + SHIFT_TIMES[s][2]

\* C20: for an instant inside a shift of the set, the shift end used is the
\* end of the occurrence that holds the instant, so the time available is at
\* most the length of the shift, and a duration that fits is added as it
\* is; 9 hours from Monday 08:00 on shifts {1, 2} end on Monday 17:00
ShiftEndOfOccurrence ==
    /\ AddHoursCalledInShift =>
           LET shift == get_shift_for_time(time_of(call.dt))
               shift_end == shift_end_of(call.dt, shift)
           IN /\ shift_end = OccurrenceEnd(call.dt, shift)
              /\ shift_end - call.dt <= ShiftLength(shift)
              /\ call.hours <= OccurrenceEnd(call.dt, shift) - call.dt
                     => call.result = call.dt + call.hours
    /\ ( /\ call.fn = "add_hours_across_shifts"
         /\ pc = "returned"
         /\ call.dt = SHIFT_TIMES[1][1]
         /\ call.hours = 9 * HalfHoursPerHour
         /\ call.resource_shifts = {1, 2} )
       => call.result = 17 * HalfHoursPerHour

\* the bookings a step adds to the timeline of r
Added(r) == { schedule'[r][i] : i \in DOMAIN schedule'[r] } \ Bookings(r)

\* t is in the first hours of the day after a Sunday, before the end of an
\* overnight shift: the tail of an occurrence that would have begun on Sunday
SundayShiftTail(t) ==
    /\ is_sunday(t - Day)
    /\ \E s \in ShiftIds :
           SHIFT_TIMES[s][1] > SHIFT_TIMES[s][2] /\ time_of(t) < SHIFT_TIMES[s][2]

\* C21, on states: no booking holds an instant of such a tail
NoSundayTailWork ==
    \A r \in Resources : \A b \in Bookings(r) :
        \A t \in b[1]..(b[2] - 1) : ~SundayShiftTail(t)

\* C21, on steps: the operation of an event whose ready time is on Sunday is
\* booked from the start of an operational shift of its resource, on a later
\* day that is not Sunday
SundayReadyStep ==
    pc = "loop" =>
        \A e \in Popped : is_sunday(e.time) =>
            \A r \in Resources : \A b \in Added(r) :
                /\ b[1] > e.time
                /\ ~is_sunday(b[1])
                /\ \E s \in shifts[r] : time_of(b[1]) = SHIFT_TIMES[s][1]

\* C21: an operation that is ready on Sunday starts at the start of an
\* operational shift of its resource on a following working day, and no
\* work is booked in the Monday 00:00-01:30 tail of the overnight shift
SundayReadyTime == []NoSundayTailWork /\ [][SundayReadyStep]_vars

\* the timeline is in the order of the booked starts
SortedByStart(sched) ==
    \A i, j \in DOMAIN sched : i < j => sched[i][1] <= sched[j][1]

\* how many entries of the timeline are the booking b
Occurrences(sched, b) == Cardinality({ i \in DOMAIN sched : sched[i] = b })

\* the step places the operation of the popped event e: the timeline of its
\* resource gains one booking, tagged with the project and the operation,
\* and keeps every booking it had; no other timeline and no other cursor
\* changes; the timeline is sorted by start
PlacementAppends(e) ==
    LET r == projects[e.proj].operations[e.op_idx + 1].res
    IN /\ Len(schedule'[r]) = Len(schedule[r]) + 1
       /\ Cardinality(Added(r)) = 1
       /\ \A b \in Added(r) : b[3] = projects[e.proj].name /\ b[4] = e.op_idx
       /\ \A b \in Bookings(r) :
              Occurrences(schedule'[r], b) = Occurrences(schedule[r], b)
       /\ \A q \in Resources \ {r} : schedule'[q] = schedule[q]
       /\ \A p \in DOMAIN projects :
              current_op'[p] = current_op[p] + (IF p = e.proj THEN 1 ELSE 0)
       /\ SortedByStart(schedule'[r])

\* a step that pops an event with an operation to place, and does not abort,
\* is a placement; any other step leaves timelines and cursors as they are
AppendOnlyStep ==
    IF pc = "loop" /\ pc' = "loop" /\ Popped # {}
       /\ \A e \in Popped : e.op_idx < Len(projects[e.proj].operations)
    THEN \A e \in Popped : PlacementAppends(e)
    ELSE schedule' = schedule /\ current_op' = current_op

\* C22: a placement adds exactly one booking to the timeline of the target
\* resource and changes no booking made before, no other timeline and no
\* other project's cursor, and leaves the target timeline sorted by start
AppendOnlyPlacement == [][AppendOnlyStep]_vars

\* the operation placed last is booked before one placed earlier: the new
\* booking is not the last entry of the timeline
AppendOnlyPlacementWitness ==
    \E r \in Resources :
        /\ Len(schedule[r]) = 3
        /\ schedule[r][2][3] = projects[3].name
        /\ \A p \in DOMAIN projects : current_op[p] = 1

\* the occurrences of the shifts of S that begin on a working day, as
\* <<start, end>>, on the days around t
OccurrencesAround(t, S) ==
    LET days == { date_of(t) + k * Day : k \in -7..7 }
    IN { <<d + SHIFT_TIMES[s][1], shift_end_of(d, s)>> :
           s \in S, d \in { x \in days : ~is_sunday(x) } }

\* the start of the occurrence that holds t, or else the latest start before t
WindowStart(t, S) ==
    LET holding == { o \in OccurrencesAround(t, S) : o[1] <= t /\ t < o[2] }
        before == { o[1] : o \in { x \in OccurrencesAround(t, S) : x[1] <= t } }
    IN IF holding # {} THEN { o[1] : o \in holding }
       ELSE { x \in before : \A y \in before : y <= x }

\* the end of the occurrence that holds t, or else the earliest end after t;
\* the end of an occurrence counts as held by it
WindowEnd(t, S) ==
    LET holding == { o \in OccurrencesAround(t, S) : o[1] < t /\ t <= o[2] }
        after == { o[2] : o \in { x \in OccurrencesAround(t, S) : x[2] >= t } }
    IN IF holding # {} THEN { o[2] : o \in holding }
       ELSE { x \in after : \A y \in after : y >= x }

\* C23: on a resource with bookings, get_first_shift_start is the start of
\* the operational shift that holds the earliest booked start, or else the
\* latest shift start before it; get_last_shift_end is the end of the shift
\* that holds the latest booked end, or else the earliest shift end after
\* it; neither is on Sunday
ScanWindowBounds ==
    \A r \in Resources :
        schedule[r] # <<>> =>
            LET first == get_first_shift_start(schedule[r], shifts[r])
                last == get_last_shift_end(schedule[r], shifts[r])
            IN /\ first \in WindowStart(schedule[r][1][1], shifts[r])
               /\ last \in WindowEnd(schedule[r][Len(schedule[r])][2], shifts[r])
               /\ ~is_sunday(first)
               /\ ~is_sunday(last)

\* every project has as many operation names as resources and durations
EqualLengths ==
    \A p \in DOMAIN projects :
        projects[p].num_operations = Len(projects[p].operations)

\* the steps the run has taken: the seeding, the events popped, the end
StepsTaken ==
    (IF pc = "init" THEN 0 ELSE 1)
    + (counter - Cardinality(event_queue))
    + (IF pc = "done" THEN 1 ELSE 0)

\* C24: on an input with lists of equal lengths, after every step the
\* machine-only scheduler has the state of the machine-and-work-center one:
\* the same pending events with the same sequence numbers, so the same
\* event popped next, the same timelines, cursors, completion times and
\* error
VariantEquivalence ==
    EqualLengths =>
        machine_after(StepsTaken) =
            [schedule |-> schedule, current_op |-> current_op,
             completion_time |-> completion_time, event_queue |-> event_queue,
             counter |-> counter, pc |-> pc, error |-> error]

\* both have ended a run of two projects, with an operation each on the
\* same resource, and a run of one project with two operations
VariantEquivalenceWitness ==
    /\ EqualLengths
    /\ pc = "done"
    /\ machine_after(StepsTaken).pc = "done"
    /\ \E r \in Resources : Len(schedule[r]) = 2

\* the events a run to its end pushes: one for each project, and one after
\* each placement but each project's last
FirstRunPushes ==
    LET more(p) == IF projects[p].num_operations > 0
                   THEN projects[p].num_operations - 1 ELSE 0
        RECURSIVE sum(_)
        sum(p) == IF p = 0 THEN 0 ELSE more(p) + sum(p - 1)
    IN Len(projects) + sum(Len(projects))

\* a run has ended, or a later call of run is under way
Completed == pc = "done" \/ counter > FirstRunPushes

RerunStep ==
    Completed =>
        /\ schedule' = schedule
        /\ current_op' = current_op
        /\ completion_time' = completion_time
        /\ pc' # "error" /\ error' = None
        /\ \A e \in Pushed \cup Popped :
               /\ e.op_idx = Len(projects[e.proj].operations)
               /\ e.op_idx = current_op[e.proj]
        /\ pc = "loop" /\ event_queue # {} => Popped # {} /\ Pushed = {}

\* C25: once a run has ended, a further call of run adds no booking and
\* changes no cursor and no completion time: each event it seeds carries
\* the length of its project's operation list as operation index, and is
\* popped and dropped without a new event
RerunIsNoOp == [][RerunStep]_vars

\* a second call of run has ended, on two projects with bookings
RerunIsNoOpWitness ==
    /\ pc = "done"
    /\ counter = FirstRunPushes + Len(projects)
    /\ Len(projects) = 2
    /\ \A p \in DOMAIN projects : completion_time[p] # None
    /\ event_queue = {}

====
